---- MODULE Spec2Model ----
(***************************************************************************)
(* Salary advance and loan API (src/Backend/main.py): the in-memory store  *)
(* loans_db, the POST /calculate_advance handler with its helpers, and the *)
(* GET /loan/{loan_id} handler.                                            *)
(*                                                                         *)
(* Numbers.  The program computes in binary floating point.  The model     *)
(* computes the same expressions exactly: every money amount is an integer *)
(* number of units, Scale units to the dollar, and the inputs are whole    *)
(* dollars, so that g*52/12, g*26/12, g/12, m*0.5 and a*0.05 are all       *)
(* integers.  Rounding to 2 decimals is rounding to a multiple of Cent     *)
(* units, ties to even.  Powers of (1 + rate/100/12) are kept as exact     *)
(* fractions.                                                              *)
(*                                                                         *)
(* Optional values: None is the empty sequence, a present value v is <<v>>.*)
(***************************************************************************)
EXTENDS Integers, Sequences, FiniteSets, TLC

VARIABLES
    loans_db,     \* the store: a function from loan ids to loan records
    db_before,    \* history: loans_db as it was when the last call began
    op,           \* the last handler that ran ("init"/"received" before any)
    request,      \* the AdvanceRequest of the last calculate_advance (or None)
    loan_id_arg,  \* the path parameter of the last get_loan (or None)
    response      \* what the last handler returned: [status, body]

vars == <<loans_db, db_before, op, request, loan_id_arg, response>>

----------------------------------------------------------------------------
(* Bounds of the model *)

MaxLoans == 2
MaxTime == 1
MaxTerm == 2

----------------------------------------------------------------------------
(* Representation *)

\* one sixth of a cent is the finest grain the salary arithmetic needs
Cent == 2 * 3
Scale == 100 * Cent

None == <<>>
Some(v) == <<v>>

\* Python truthiness of an Optional number: None and 0 are falsy
Truthy(o) == o # None /\ o[1] # 0

Abs(x) == IF x < 0 THEN -x ELSE x

RECURSIVE GCD(_, _)
GCD(a, b) == IF b = 0 THEN a ELSE GCD(b, a % b)

RECURSIVE Pow(_, _)
Pow(b, e) == IF e = 0 THEN 1 ELSE b * Pow(b, e - 1)

\* n/d (d > 0) rounded to the nearest integer, ties to even
RoundHalfEven(n, d) ==
    LET q == n \div d
        r == n % d
    IN  IF 2 * r < d THEN q
        ELSE IF 2 * r > d THEN q + 1
        ELSE IF q % 2 = 0 THEN q ELSE q + 1

\* round(x, 2) for x = n/d units, d # 0: a whole number of cents, in units
round2(n, d) ==
    IF d > 0 THEN Cent * RoundHalfEven(n, d * Cent)
    ELSE Cent * RoundHalfEven(-n, (-d) * Cent)

\* rate / 100 / 12 as the reduced fraction num/den, den > 0
MonthlyRate(rate) ==
    LET g == GCD(1200, Abs(rate))
    IN  [num |-> rate \div g, den |-> 1200 \div g]

\* (1 + monthly_rate) ** term as a fraction num/den (den may be negative)
Growth(rate, term) ==
    LET mr == MonthlyRate(rate)
    IN  IF term >= 0
        THEN [num |-> Pow(mr.den + mr.num, term), den |-> Pow(mr.den, term)]
        ELSE [num |-> Pow(mr.den, -term), den |-> Pow(mr.den + mr.num, -term)]

Return(v) == [exc |-> "", value |-> v]
Raise(e) == [exc |-> e, value |-> None]

Put(db, k, v) == [x \in DOMAIN db \cup {k} |-> IF x = k THEN v ELSE db[x]]

----------------------------------------------------------------------------
(* Helpers of the program *)

convert_to_monthly_salary_annual_undivided(gross_salary, pay_frequency) ==
    CASE pay_frequency = "Weekly" -> Return((gross_salary * 52) \div 12)
      [] pay_frequency = "Bi-Weekly" -> Return((gross_salary * 26) \div 12)
      [] pay_frequency = "Monthly" -> Return(gross_salary)
      [] pay_frequency = "Annually" -> Return(gross_salary)
      [] OTHER -> Raise("ValueError")
convert_to_monthly_salary(gross_salary, pay_frequency) ==
    CASE pay_frequency = "Weekly" -> Return((gross_salary * 52) \div 12)
      [] pay_frequency = "Bi-Weekly" -> Return((gross_salary * 26) \div 12)
      [] pay_frequency = "Monthly" -> Return(gross_salary)
      [] pay_frequency = "Annually" -> Return(gross_salary \div 12)
      [] OTHER -> Raise("ValueError")

\* principal * (1 + rate/100/12) ** (12 * (term_months / 12)), rounded
calculate_compound_interest(principal, rate, term_months) ==
    LET g == Growth(rate, term_months)
    IN  round2(principal * g.num, g.den)

AmortizationRow(principal, mr, monthly_payment, m) ==
    LET interest_n == principal * mr.num                      \* over mr.den
        principal_n == monthly_payment * mr.den - interest_n  \* over mr.den
        balance_n == principal * mr.den - m * principal_n     \* over mr.den
        clipped_n == IF balance_n < 0 THEN 0 ELSE balance_n
    IN  [Month |-> m,
         Payment |-> round2(monthly_payment, 1),
         Principal |-> round2(principal_n, mr.den),
         Interest |-> round2(interest_n, mr.den),
         Balance |-> round2(clipped_n, mr.den)]

generate_amortization_schedule(principal, rate, term_months) ==
    LET mr == MonthlyRate(rate)
        g == Growth(rate, term_months)
        pay_n == principal * mr.num * g.num
        pay_d == mr.den * (g.num - g.den)
    IN  IF pay_d = 0 THEN Raise("ZeroDivisionError")
        ELSE LET monthly_payment == round2(pay_n, pay_d)
             IN  Return([m \in 1..term_months |->
                            AmortizationRow(principal, mr, monthly_payment, m)])

Max(a, b) == IF a >= b THEN a ELSE b
Min(a, b) == IF a <= b THEN a ELSE b

min_salary_threshold == 1000 * Scale

\* Step 4: max(10.0, min(50.0, advance_amount * 0.05))
fee_no_floor(advance_amount) == Min(50 * Scale, advance_amount \div 20)
fee(advance_amount) ==
    Max(10 * Scale, Min(50 * Scale, advance_amount \div 20))

\* Step 5: the loan repayment, computed only when all three fields are truthy
LoanStep(req) ==
    IF Truthy(req.loan_amount) /\ Truthy(req.interest_rate) /\ Truthy(req.loan_term)
    THEN LET total == calculate_compound_interest(
                          req.loan_amount[1], req.interest_rate[1], req.loan_term[1])
         IN  IF req.include_amortization
             THEN LET s == generate_amortization_schedule(
                               req.loan_amount[1], req.interest_rate[1], req.loan_term[1])
                  IN  IF s.exc # "" THEN Raise(s.exc)
                      ELSE Return([total_repayable |-> Some(total),
                                   amortization_schedule |-> Some(s.value)])
             ELSE Return([total_repayable |-> Some(total),
                          amortization_schedule |-> None])
    ELSE Return([total_repayable |-> None, amortization_schedule |-> None])

AdvanceResponse(eligible, max_advance, approved_amount, fee_, total_repayable, amortization_schedule, message, loan_id) ==
    [status |-> 200,
     body |-> [eligible |-> eligible,
               max_advance |-> max_advance,
               approved_amount |-> approved_amount,
               fee |-> fee_,
               total_repayable |-> total_repayable,
               amortization_schedule |-> amortization_schedule,
               message |-> message,
               loan_id |-> loan_id]]

HTTPException(status_code, detail) == [status |-> status_code, body |-> detail]

\* except ValueError -> 400 with the message; except Exception -> 500
OnException(exc) ==
    IF exc = "ValueError" THEN HTTPException(400, "Invalid pay frequency")
    ELSE HTTPException(500, "Internal server error")

\* Step 6: the record
loan_record(req, fee_, ls, loan_id, now) ==
    [loan_id |-> loan_id,
     advance_amount |-> req.advance_amount,
     fee |-> fee_,
     timestamp |-> now,
     gross_salary |-> req.gross_salary,
     pay_frequency |-> req.pay_frequency,
     loan_amount |-> req.loan_amount,
     interest_rate |-> req.interest_rate,
     loan_term |-> req.loan_term,
     total_repayable |-> ls.total_repayable,
     amortization_schedule |-> ls.amortization_schedule]

\* Step 7: the response of an approved advance
ApprovedResponse_no_id(req, max_advance, fee_, ls, loan_id) ==
    AdvanceResponse(TRUE, max_advance, req.advance_amount, fee_,
                    ls.total_repayable, ls.amortization_schedule,
                    IF Truthy(ls.total_repayable) THEN "approved, loan repayable"
                    ELSE "approved",
                    None)
ApprovedResponse(req, max_advance, fee_, ls, loan_id) ==
    AdvanceResponse(TRUE, max_advance, req.advance_amount, fee_,
                    ls.total_repayable, ls.amortization_schedule,
                    IF Truthy(ls.total_repayable) THEN "approved, loan repayable"
                    ELSE "approved",
                    Some(loan_id))

\* The body of calculate_advance for one request, given the uuid and the
\* clock reading it would draw: the response (or the HTTP error raised) and
\* the record assigned into loans_db, None when the call assigns none.
Handler_record_first(req, loan_id, now) ==
    LET ms == convert_to_monthly_salary(req.gross_salary, req.pay_frequency)
    IN  IF ms.exc # "" THEN [response |-> OnException(ms.exc), store |-> None]
        ELSE IF ~(ms.value >= min_salary_threshold)
        THEN [response |-> AdvanceResponse(FALSE, 0, 0, 0, None, None,
                                           "ineligible", None),
              store |-> None]
        ELSE LET max_advance == ms.value \div 2
             IN  IF req.advance_amount > max_advance
                 THEN [response |-> AdvanceResponse(TRUE, max_advance, 0, 0, None,
                                                    None, "exceeds maximum", None),
                       store |-> None]
                 ELSE LET fee_ == fee(req.advance_amount)
                          ls == LoanStep(req)
                          none == [total_repayable |-> None,
                                   amortization_schedule |-> None]
                      IN  IF ls.exc # ""
                          THEN [response |-> OnException(ls.exc),
                                store |-> Some(loan_record(req, fee_, none,
                                                           loan_id, now))]
                          ELSE [response |-> ApprovedResponse(req, max_advance, fee_,
                                                              ls.value, loan_id),
                                store |-> Some(loan_record(req, fee_, ls.value,
                                                           loan_id, now))]
Handler(req, loan_id, now) ==
    LET ms == convert_to_monthly_salary(req.gross_salary, req.pay_frequency)
    IN  IF ms.exc # "" THEN [response |-> OnException(ms.exc), store |-> None]
        ELSE IF ~(ms.value >= min_salary_threshold)
        THEN [response |-> AdvanceResponse(FALSE, 0, 0, 0, None, None,
                                           "ineligible", None),
              store |-> None]
        ELSE LET max_advance == ms.value \div 2
             IN  IF req.advance_amount > max_advance
                 THEN [response |-> AdvanceResponse(TRUE, max_advance, 0, 0, None,
                                                    None, "exceeds maximum", None),
                       store |-> None]
                 ELSE LET fee_ == fee(req.advance_amount)
                          ls == LoanStep(req)
                      IN  IF ls.exc # ""
                          THEN [response |-> OnException(ls.exc), store |-> None]
                          ELSE [response |-> ApprovedResponse(req, max_advance, fee_,
                                                              ls.value, loan_id),
                                store |-> Some(loan_record(req, fee_, ls.value,
                                                           loan_id, now))]

----------------------------------------------------------------------------
(* Inputs *)

UUIDs == 1..MaxLoans
Times == 0..MaxTime

\* str(uuid.uuid4()): an identifier no earlier call has drawn
uuid4_reused(db) == UUIDs
uuid4(db) == UUIDs \ DOMAIN db

Dollars(S) == {d * Scale : d \in S}
Optional(S) == {None} \cup {Some(v) : v \in S}

PayFrequencies == {"Weekly", "Bi-Weekly", "Monthly", "Annually", "Daily"}

EvalRequests ==
    [gross_salary : Dollars({500, 1000, 4000}),
     pay_frequency : PayFrequencies,
     advance_amount : Dollars({0, 100, 500, 1500, 2500}),
     loan_amount : Optional(Dollars({0, 100})),
     interest_rate : Optional({0, 120, 1200, -2400}),
     loan_term : Optional(0..MaxTerm),
     include_amortization : BOOLEAN]

StoreRequests ==
    {r \in EvalRequests :
        /\ r.gross_salary \in Dollars({500, 4000})
        /\ r.pay_frequency \in {"Monthly", "Daily"}
        /\ r.advance_amount \in Dollars({100, 2500})
        /\ r.loan_amount \in Optional(Dollars({100}))
        /\ (r.loan_amount = None) = (r.interest_rate = None)
        /\ (r.loan_amount = None) = (r.loan_term = None)
        /\ r.interest_rate \in Optional({120, -2400})
        /\ r.loan_term \in Optional({2})
        /\ r.include_amortization = (r.loan_amount # None)}

----------------------------------------------------------------------------
(* The handlers *)

\* POST /calculate_advance.  The handler has no await: it runs to completion
\* before any other request is served.
calculate_advance(req) ==
    /\ \E loan_id \in uuid4(loans_db), now \in Times :
          LET h == Handler(req, loan_id, now)
          IN  /\ response' = h.response
              /\ loans_db' = IF h.store = None THEN loans_db
                             ELSE Put(loans_db, loan_id, h.store[1])
    /\ db_before' = loans_db
    /\ op' = "calculate_advance"
    /\ request' = Some(req)
    /\ loan_id_arg' = None

\* GET /loan/{loan_id}
get_loan(loan_id) ==
    /\ response' = IF loan_id \notin DOMAIN loans_db
                   THEN HTTPException(404, "Loan not found")
                   ELSE [status |-> 200, body |-> loans_db[loan_id]]
    /\ db_before' = loans_db
    /\ op' = "get_loan"
    /\ loan_id_arg' = Some(loan_id)
    /\ UNCHANGED <<loans_db, request>>

NoResponse == [status |-> 0, body |-> "none"]
EmptyDb == [x \in {} |-> None]

\* The service: any sequence of the two calls
Init ==
    /\ loans_db = EmptyDb
    /\ db_before = EmptyDb
    /\ op = "init"
    /\ request = None
    /\ loan_id_arg = None
    /\ response = NoResponse

PostCalculateAdvance == \E req \in StoreRequests : calculate_advance(req)
GetLoan == \E loan_id \in UUIDs : get_loan(loan_id)

Next == PostCalculateAdvance \/ GetLoan

Spec == Init /\ [][Next]_vars

\* One call of calculate_advance on an empty store, over the wide input set
InitEval ==
    /\ loans_db = EmptyDb
    /\ db_before = EmptyDb
    /\ op = "received"
    /\ request \in {Some(r) : r \in EvalRequests}
    /\ loan_id_arg = None
    /\ response = NoResponse

Evaluate == op = "received" /\ calculate_advance(request[1])

NextEval == Evaluate

SpecEval == InitEval /\ [][NextEval]_vars

----------------------------------------------------------------------------
(* Vocabulary of the properties.  The request's figures are restated here  *)
(* by cross-multiplication, independently of the helpers above.            *)

Called == op = "calculate_advance"
Outcome == Called /\ response.status = 200
Failed == Called /\ response.status \in {400, 500}
Req == request[1]
Body == response.body
NewKeys == DOMAIN loans_db \ DOMAIN db_before

\* twelve times the normalized monthly salary
SalaryTimes12(req) ==
    CASE req.pay_frequency = "Weekly" -> req.gross_salary * 52
      [] req.pay_frequency = "Bi-Weekly" -> req.gross_salary * 26
      [] req.pay_frequency = "Monthly" -> req.gross_salary * 12
      [] req.pay_frequency = "Annually" -> req.gross_salary
      [] OTHER -> 0

\* monthlySalary >= 1000
EligibleReq(req) == SalaryTimes12(req) >= 12 * 1000 * Scale
\* advanceAmount <= monthlySalary * 0.5
WithinCap(req) == 24 * req.advance_amount <= SalaryTimes12(req)
PassesChecks(req) == EligibleReq(req) /\ WithinCap(req)

\* all three loan fields are supplied
TripleSupplied(req) ==
    req.loan_amount # None /\ req.interest_rate # None /\ req.loan_term # None

InsertedOne ==
    /\ Cardinality(NewKeys) = 1
    /\ \A k \in NewKeys : Body.loan_id = Some(k) /\ loans_db[k].loan_id = k

----------------------------------------------------------------------------
(* C1 *)

\* C1 as stated: every call of calculate_advance that returns an outcome
\* inserts exactly one new record, on the ineligible and over-cap branches
\* too, and the outcome's loan_id is that record's identifier.
C1_EveryOutcomeInsertsOne == Outcome => InsertedOne

\* C1 as amended: an outcome inserts exactly one new record, whose identifier
\* is the outcome's loan_id, when the request passes the eligibility and cap
\* checks; an ineligible or over-cap outcome inserts nothing and carries no
\* loan_id.
C1_ApprovedOutcomeInsertsOne ==
    Outcome =>
        IF PassesChecks(Req) THEN InsertedOne
        ELSE loans_db = db_before /\ Body.loan_id = None

C1_Witness ==
    /\ Outcome /\ PassesChecks(Req)
    /\ DOMAIN db_before # {}
    /\ Cardinality(DOMAIN loans_db) = Cardinality(DOMAIN db_before) + 1

----------------------------------------------------------------------------
(* C2 *)

\* C2: every record the store held when a call began is still there under
\* its identifier with the same content when the call ends (so by induction
\* every record ever inserted stays); an insertion uses a key the store did
\* not hold; get_loan returns the stored record for a stored id, 404
\* otherwise.
C2_StoreKeepsRecords ==
    /\ \A k \in DOMAIN db_before :
          k \in DOMAIN loans_db /\ loans_db[k] = db_before[k]
    /\ \A k \in DOMAIN loans_db : loans_db[k].loan_id = k
    /\ (Outcome /\ Body.loan_id # None) => Body.loan_id[1] \notin DOMAIN db_before
    /\ op = "get_loan" =>
          /\ loans_db = db_before
          /\ IF loan_id_arg[1] \in DOMAIN loans_db
             THEN response = [status |-> 200, body |-> loans_db[loan_id_arg[1]]]
             ELSE response.status = 404

C2_Witness ==
    /\ op = "get_loan"
    /\ response.status = 200
    /\ Cardinality(DOMAIN loans_db) >= 2
    /\ \E k \in UUIDs : k # loan_id_arg[1] /\ k \in DOMAIN loans_db

----------------------------------------------------------------------------
(* C3 *)

\* C3: a call of calculate_advance that ends in a failure (400 for an
\* unknown pay frequency, 500 for a fault in the loan computation) leaves
\* the store as it was before the call.
C3_FailureLeavesStore == Failed => loans_db = db_before

C3_Witness ==
    /\ Called /\ response.status = 500
    /\ PassesChecks(Req)
    /\ DOMAIN db_before # {}

----------------------------------------------------------------------------
(* C4 *)

\* C4: in every outcome, approved_amount is the requested advance when the
\* normalized monthly salary is >= 1000 and the advance is <= half of it,
\* and 0 otherwise; eligible tells whether the salary is >= 1000.
C4_ApprovedAllOrNothing ==
    Outcome =>
        /\ Body.eligible = EligibleReq(Req)
        /\ Body.approved_amount =
              IF PassesChecks(Req) THEN Req.advance_amount ELSE 0

C4_Witness ==
    /\ Outcome
    /\ SalaryTimes12(Req) = 12 * 1000 * Scale
    /\ 24 * Req.advance_amount = SalaryTimes12(Req)
    /\ Body.approved_amount = Req.advance_amount

----------------------------------------------------------------------------
(* C5 *)

\* C5: in every outcome, approved_amount = 0 implies fee = 0.
C5_FeeOnlyWhenApproved ==
    Outcome => (Body.approved_amount = 0 => Body.fee = 0)

----------------------------------------------------------------------------
(* C6 *)

\* C6: for a request that passes the eligibility and cap checks the fee, in
\* the outcome and in the stored record, is 5% of the advance clamped to
\* [10, 50].
C6_FeeClamped ==
    (Outcome /\ PassesChecks(Req)) =>
        /\ IF 5 * Req.advance_amount < 100 * 10 * Scale THEN Body.fee = 10 * Scale
           ELSE IF 5 * Req.advance_amount > 100 * 50 * Scale THEN Body.fee = 50 * Scale
           ELSE 100 * Body.fee = 5 * Req.advance_amount
        /\ 10 * Scale <= Body.fee /\ Body.fee <= 50 * Scale
        /\ \A k \in NewKeys : loans_db[k].fee = Body.fee

C6_Witness ==
    /\ Outcome /\ PassesChecks(Req)
    /\ 10 * Scale < Body.fee /\ Body.fee < 50 * Scale
    /\ NewKeys # {}

----------------------------------------------------------------------------
(* C7 *)

\* C7: for a request that reaches the loan step, total_repayable is present
\* exactly when all three loan fields are supplied; with rate 0 and a
\* positive term it is the principal.
C7_TotalPresentIffSupplied ==
    (Outcome /\ PassesChecks(Req)) =>
        /\ (Body.total_repayable # None) = TripleSupplied(Req)
        /\ (TripleSupplied(Req) /\ Req.interest_rate[1] = 0 /\ Req.loan_term[1] > 0)
              => Body.total_repayable = Req.loan_amount

----------------------------------------------------------------------------
(* C8 *)

\* C8: when the loan triple is supplied with a term <= 0 or a principal <= 0
\* the call fails with a client-input error and stores nothing.
C8_BadLoanParametersRejected ==
    (Called /\ TripleSupplied(Req)
            /\ (Req.loan_term[1] <= 0 \/ Req.loan_amount[1] <= 0)) =>
        response.status = 400 /\ loans_db = db_before

----------------------------------------------------------------------------
(* C9, C10 *)

HasSchedule ==
    /\ Outcome
    /\ Body.amortization_schedule # None
    /\ Req.loan_amount[1] > 0 /\ Req.interest_rate[1] > 0 /\ Req.loan_term[1] >= 1
Schedule == Body.amortization_schedule[1]

\* C9: the schedule has exactly term rows, Month = 1..term in order, no
\* negative remaining balance, and a final remaining balance of exactly 0.
C9_ScheduleEndsAtZero ==
    HasSchedule =>
        /\ DOMAIN Schedule = 1..Req.loan_term[1]
        /\ \A m \in DOMAIN Schedule : Schedule[m].Month = m /\ Schedule[m].Balance >= 0
        /\ Schedule[Req.loan_term[1]].Balance = 0

\* the balance a row starts from
BalanceBefore(m) == IF m = 1 THEN Req.loan_amount[1] ELSE Schedule[m - 1].Balance

\* C10: each row's interest is the monthly rate times the balance before the
\* payment, its principal part is payment - interest, its remaining balance
\* is max(0, balance before - principal part) (each to the cent), and the
\* interest strictly decreases from row to row while the balance is positive.
C10_RowsFollowRunningBalance ==
    HasSchedule =>
        \A m \in DOMAIN Schedule :
            LET row == Schedule[m]
                mr == MonthlyRate(Req.interest_rate[1])
            IN  /\ Abs(row.Interest * mr.den - mr.num * BalanceBefore(m)) <= Cent * mr.den
                /\ Abs(row.Principal - (row.Payment - row.Interest)) <= Cent
                /\ Abs(row.Balance - Max(0, BalanceBefore(m) - row.Principal)) <= Cent
                /\ (m > 1 /\ BalanceBefore(m) > 0)
                      => row.Interest < Schedule[m - 1].Interest

====
